---- MODULE Spec2Model ----
(***************************************************************************)
(* Session protocol of the MCPrivy backend worker                          *)
(* (mcprivy-backend/src/index.ts): the fetch handler's WebSocket route,    *)
(* the asynchronous authentication / wallet-resolution task it starts, the *)
(* message, close and error listeners, and the process-wide wsState map.   *)
(* Every action is the code that runs between two awaits.                  *)
(***************************************************************************)
EXTENDS Integers, Sequences, FiniteSets, TLC

\* ---------------------------------------------------------------- bounds
\* number of inbound messages the clients send over all connections
MaxReqs == 1
\* number of adverse events (a rejected request or token, a failing upstream
\* call, a transport error, a throwing send) in one run of Spec or of
\* SpecPipeline
MaxFaults == 1
\* number of inbound messages on the single connection of SpecPipeline
MaxPipeline == 2
\* number of inbound messages over the connections of SpecShared
MaxShared == 2

\* ------------------------------------------------------------ input sets
None == "none"
Conns == {"ws1", "ws2"}
Users == {"u1", "u2"}
Tokens == {None, "expired", "tok_u1", "tok_u2"}
TempWalletId == "temp-wallet-id"

\* ---------------------------------------------------- external services
\* client.verifyAuthToken(token): the user id of a valid token, or a throw
verifyAuthToken(tok) ==
    CASE tok = "tok_u1" -> [ok |-> TRUE, userId |-> "u1"]
      [] tok = "tok_u2" -> [ok |-> TRUE, userId |-> "u2"]
      [] OTHER -> [ok |-> FALSE, userId |-> None]

\* one entry of linked_accounts in the user data the Custody Service returns
Account(type, chain, id, address) ==
    [type |-> type, chain_type |-> chain, id |-> id, address |-> address]
undefined == Account(None, None, None, None)
\* the owner of a linked account as the resolver sees it: the lookup
\* response is read as { type, address?, chain_type?, id? }, without owner
ownerRef(account) == None

\* linked accounts an identity can have before any connection is made: none,
\* a custodial ethereum wallet, only accounts of other kinds, or an external
\* ethereum wallet (no id) linked before a custodial one, or an ethereum
\* wallet account without an address; identities are named in the order
\* they first connect, so the second one needs less
InitLinked(u) ==
    IF u = "u1"
      THEN { <<>>,
             << Account("wallet", "ethereum", "p_" \o u, "ap_" \o u) >>,
             << Account("email", None, None, "mail_" \o u),
                Account("wallet", "solana", "s_" \o u, "as_" \o u) >>,
             << Account("wallet", "ethereum", None, "ext_" \o u),
                Account("wallet", "ethereum", "p_" \o u, "ap_" \o u) >>,
             << Account("wallet", "ethereum", "q_" \o u, None) >> }
      ELSE { <<>>,
             << Account("wallet", "ethereum", "p_" \o u, "ap_" \o u) >> }

\* the wallet the Custody Service makes for the n-th successful create call
NewWallet(n) ==
    Account("wallet", "ethereum", "w" \o ToString(n), "a" \o ToString(n))

VARIABLES
    env,        \* the bindings of the deployment (PRIVY_AUTHORIZATION_KEY)
    token,      \* token[c]: the token query parameter of the upgrade request
    upgradeHeader, \* upgradeHeader[c]: the Upgrade header of the request
    status,     \* status[c]: status of the HTTP response, 0 before the request
    transport,  \* transport[c]: "none", "open", "errored" or "closed"
    pc,         \* pc[c]: position of the asynchronous authentication task
    userId,     \* userId[c]: verificationResult.userId
    wsState,    \* the process-wide Map<WebSocket, WebSocketState>
    sent,       \* sent[c]: the serverWs.send calls made, in order
    calls,      \* calls[c]: number of upstream calls issued, per kind
    res,        \* res[c]: what the resolver's upstream calls returned
    linked,     \* linked[u]: linked accounts held by the Custody Service
    created,    \* created[u]: wallets the Custody Service created for u
    nextWallet, \* serial number of the next wallet the service creates
    reqlog,     \* reqlog[c]: the inbound messages handled so far, in order
    pending,    \* pending[c]: requests whose signMessage call is in flight
    quota       \* what the environment may still do: messages and faults

vars == << env, token, upgradeHeader, status, transport, pc, userId, wsState, sent,
           calls, res, linked, created, nextWallet, reqlog, pending, quota >>

\* -------------------------------------------------------- the environment
\* the step is taken by the environment; a fault needs budget and uses it
Env(fault) ==
    /\ fault /\ quota.limited => quota.faults > 0
    /\ quota' = IF fault /\ quota.limited
                  THEN [quota EXCEPT !.faults = @ - 1] ELSE quota

\* ------------------------------------------------------- the wsState map
\* wsState.get(ws): the entry stored under the handle, or no state
NoState == [ws |-> None, walletId |-> None]
wsStateHas(m, ws) == \E e \in m : e.ws = ws
wsStateGet_Shared(m, ws) ==
    IF m # {} THEN CHOOSE e \in m : TRUE ELSE NoState
wsStateGet(m, ws) ==
    IF wsStateHas(m, ws) THEN CHOOSE e \in m : e.ws = ws ELSE NoState
\* wsState.delete(ws)
wsStateDelete_All(m, ws) == {}
wsStateDelete(m, ws) == { e \in m : e.ws # ws }
\* wsState.set(ws, { walletId }): a Map keeps one entry per key
wsStateSet_Replace(m, ws, walletId) == { [ws |-> ws, walletId |-> walletId] }
wsStateSet_OtherKey(m, ws, walletId) ==
    { e \in m : e.ws \notin Conns \ {ws} }
        \cup { [ws |-> k, walletId |-> walletId] : k \in Conns \ {ws} }
wsStateSet_Placeholder(m, ws, walletId) ==
    { e \in m : e.ws # ws } \cup { [ws |-> ws, walletId |-> TempWalletId] }
wsStateSet(m, ws, walletId) ==
    { e \in m : e.ws # ws } \cup { [ws |-> ws, walletId |-> walletId] }

\* ------------------------------------------------------------- envelopes
\* JSON.stringify({ id, ..., jsonrpc: '2.0' }) as handed to serverWs.send;
\* req is the serial number of the inbound message being answered (0 for a
\* notification)
Envelope(id, error, user, walletId, address, isNew, hasResult, sigWallet, sigMessage, req) ==
    [id |-> id, error |-> error, user |-> user, walletId |-> walletId,
     address |-> address, isNew |-> isNew, hasResult |-> hasResult,
     sigWallet |-> sigWallet, sigMessage |-> sigMessage, req |-> req,
     jsonrpc |-> "2.0"]

Welcome(u) == Envelope("welcome", None, u, None, None, FALSE, FALSE, None, None, 0)
ErrorNotification(text) ==
    Envelope("error", text, None, None, None, FALSE, FALSE, None, None, 0)
WalletFound(w, a) ==
    Envelope("wallet_found", None, None, w, a, FALSE, TRUE, None, None, 0)
WalletCreated_NotNew(w, a) ==
    Envelope("wallet_created", None, None, w, a, FALSE, TRUE, None, None, 0)
WalletCreated(w, a) ==
    Envelope("wallet_created", None, None, w, a, TRUE, TRUE, None, None, 0)
ErrorResponse(id, text, n) ==
    Envelope(id, text, None, None, None, FALSE, FALSE, None, None, n)
ResultResponse_FixedId(id, w, m, n) ==
    Envelope("1", None, None, None, None, FALSE, TRUE, w, m, n)
ResultResponse(id, w, m, n) ==
    Envelope(id, None, None, None, None, FALSE, TRUE, w, m, n)

\* serverWs.send(m) appended to a log of the calls made on connection c
Send(log, c, m) == Append(log, m)
\* a send on a transport that is no longer open is either silently dropped
\* or throws; thr is the outcome the runtime produces in this step
SendThrows(c, thr) == transport[c] # "open" /\ thr

\* the states the Custody Service can be in before any connection is made
Custody ==
    { f \in [Users -> UNION { InitLinked(u) : u \in Users }] :
          \A u \in Users : f[u] \in InitLinked(u) }

\* the Custody Service state of the runs with client messages: the first
\* identity has a wallet to reuse, the second has none
CustodyRelay ==
    { f \in Custody : f["u1"] = << Account("wallet", "ethereum", "p_u1", "ap_u1") >>
                        /\ f["u2"] = <<>> }

\* the bindings of a deployment: the authorization key is configured or not
Configured == [PRIVY_AUTHORIZATION_KEY |-> "authkey"]
Deployments == { Configured, [PRIVY_AUTHORIZATION_KEY |-> None] }

\* the worker after start-up: the session table is empty, no request has
\* arrived, nothing was sent and no upstream call was made
Start ==
    /\ token = [c \in Conns |-> None]
    /\ upgradeHeader = [c \in Conns |-> None]
    /\ status = [c \in Conns |-> 0]
    /\ transport = [c \in Conns |-> "none"]
    /\ pc = [c \in Conns |-> "new"]
    /\ userId = [c \in Conns |-> None]
    /\ wsState = {}
    /\ sent = [c \in Conns |-> <<>>]
    /\ calls = [c \in Conns |-> [verify |-> 0, lookup |-> 0, create |-> 0, sign |-> 0]]
    /\ res = [c \in Conns |-> [lookup |-> None, accounts |-> <<>>, create |-> None,
                               walletId |-> None, address |-> None]]
    /\ created = [u \in Users |-> 0]
    /\ nextWallet = 1
    /\ reqlog = [c \in Conns |-> <<>>]
    /\ pending = [c \in Conns |-> {}]

\* the environment sends at most MaxReqs messages and injects at most
\* MaxFaults faults
Init ==
    /\ Start
    /\ env = Configured
    /\ linked \in CustodyRelay
    /\ quota = [msgs |-> MaxReqs, faults |-> MaxFaults, limited |-> TRUE,
                conns |-> Conns]

\* one upstream call of the given kind is issued for a connection whose
\* calls so far are counted in k
Issue_ResolveAgain(k, kind) ==
    [k EXCEPT ![kind] = IF kind = "lookup" THEN @ + 2 ELSE @ + 1]
Issue_SignRetried(k, kind) ==
    [k EXCEPT ![kind] = IF kind = "sign" THEN @ + 2 ELSE @ + 1]
Issue_VerifyAgain(k, kind) ==
    [k EXCEPT ![kind] = IF kind = "verify" THEN @ + 2 ELSE @ + 1]
Issue_CreateTwice(k, kind) ==
    [k EXCEPT ![kind] = IF kind = "create" THEN @ + 2 ELSE @ + 1]
Issue(k, kind) == [k EXCEPT ![kind] = @ + 1]

\* ------------------------------------------------------- Session Gateway
\* fetch(request, env) on the /ws route: 400 without an upgrade header, 401
\* without a token, otherwise accept the socket, start the asynchronous
\* authentication (which runs up to its first await, the verifyAuthToken
\* call) and return the 101 response
TokenMissing_Never(tok) == FALSE
TokenMissing(tok) == tok = None

\* the status of the Response that fetch returns, in the same step that
\* starts the asynchronous task; 0 stands for no response yet
ResponseStatus_Deferred(upgrade, tok) ==
    IF ~upgrade THEN 400 ELSE IF TokenMissing(tok) THEN 401 ELSE 0
ResponseStatus(upgrade, tok) ==
    IF ~upgrade THEN 400 ELSE IF TokenMissing(tok) THEN 401 ELSE 101

\* connections are numbered in the order their requests arrive, and the
\* first token that can verify belongs to the identity named u1
FetchInputs(c) ==
    IF c = "ws1"
      THEN { <<TRUE, None>>, <<FALSE, None>>, <<FALSE, "tok_u1">>,
             <<TRUE, "expired">>, <<TRUE, "tok_u1">> }
      ELSE { <<TRUE, None>>, <<FALSE, None>>, <<FALSE, "tok_u1">>,
             <<TRUE, "expired">>, <<TRUE, "tok_u1">>, <<TRUE, "tok_u2">> }

Fetch(c, upgrade, tok) ==
    /\ pc[c] = "new"
    /\ <<upgrade, tok>> \in FetchInputs(c)
    /\ c \in quota.conns
    /\ c = "ws2" => pc["ws1"] # "new"
    /\ Env(~upgrade \/ ~verifyAuthToken(tok).ok)
    /\ token' = [token EXCEPT ![c] = tok]
    /\ upgradeHeader' = [upgradeHeader EXCEPT ![c] =
                            IF upgrade THEN "websocket" ELSE None]
    /\ status' = [status EXCEPT ![c] = ResponseStatus(upgrade, tok)]
    /\ IF ~upgrade \/ TokenMissing(tok)
         THEN /\ pc' = [pc EXCEPT ![c] = "rejected"]
              /\ UNCHANGED << transport, calls >>
         ELSE /\ transport' = [transport EXCEPT ![c] = "open"]
              /\ pc' = [pc EXCEPT ![c] = "verifying"]
              /\ calls' = [calls EXCEPT ![c] = Issue(@, "verify")]
    /\ UNCHANGED << env, userId, wsState, sent, res, linked, created,
                    nextWallet, reqlog, pending >>

\* ------------------------------------------------------- Wallet Resolver
\* the catch of the asynchronous task: one "Authentication failed" error
\* notification; the task ends without storing any state
AuthenticationError_Silent(log, c) == log
AuthenticationError(log, c) == Send(log, c, ErrorNotification("Authentication failed"))

\* the outcome of await client.verifyAuthToken(token) as the task sees it
VerifyOutcome_Unchecked(tok) ==
    IF verifyAuthToken(tok).ok THEN verifyAuthToken(tok)
    ELSE [ok |-> TRUE, userId |-> "u1"]
VerifyOutcome(tok) == verifyAuthToken(tok)

\* the welcome message, sent first once the token is verified
SendWelcome_Omitted(log, c, u) == log
SendWelcome(log, c, u) == Send(log, c, Welcome(u))

\* verifyAuthToken returns: on success send the welcome and issue the user
\* data lookup, on a throw run the catch
VerifyReturn(c, thr) ==
    /\ pc[c] = "verifying"
    /\ Env(SendThrows(c, thr))
    /\ LET r == VerifyOutcome(token[c])
           welcomed == SendWelcome(sent[c], c, r.userId)
       IN  IF r.ok /\ ~SendThrows(c, thr)
             THEN /\ userId' = [userId EXCEPT ![c] = r.userId]
                  /\ sent' = [sent EXCEPT ![c] = welcomed]
                  /\ calls' = [calls EXCEPT ![c] = Issue(@, "lookup")]
                  /\ pc' = [pc EXCEPT ![c] = "lookup"]
             ELSE /\ userId' = [userId EXCEPT ![c] = r.userId]
                  /\ sent' = [sent EXCEPT ![c] =
                        AuthenticationError(IF r.ok THEN welcomed ELSE sent[c], c)]
                  /\ pc' = [pc EXCEPT ![c] = "failed"]
                  /\ UNCHANGED calls
    /\ UNCHANGED << env, token, upgradeHeader, status, transport, wsState, res, linked, created,
                    nextWallet, reqlog, pending >>

\* userData.linked_accounts.find(account => account.type === 'wallet' &&
\* account.chain_type === 'ethereum'): the first such account, or undefined
IsEthereumWallet(account) ==
    account.type = "wallet" /\ account.chain_type = "ethereum"
RECURSIVE find(_)
find(accounts) ==
    IF accounts = <<>> THEN undefined
    ELSE IF IsEthereumWallet(Head(accounts)) THEN Head(accounts)
    ELSE find(Tail(accounts))
\* existingWallet && existingWallet.id && existingWallet.address
Usable_AnyFound(existingWallet) == existingWallet # undefined
Usable(existingWallet) ==
    /\ existingWallet # undefined
    /\ existingWallet.id # None
    /\ existingWallet.address # None

\* the user data fetch returns: "ok" with the identity's linked accounts,
\* "notok" with a non-success status, or "throw" (the fetch rejects or the
\* body does not parse)
LookupReturn(c, outcome, thr) ==
    /\ pc[c] = "lookup"
    /\ Env(outcome # "ok" \/ SendThrows(c, thr))
    /\ LET accounts == IF outcome = "ok" THEN linked[userId[c]] ELSE <<>>
           existingWallet == find(accounts)
           found == Send(sent[c], c, WalletFound(existingWallet.id, existingWallet.address))
       IN  /\ res' = [res EXCEPT ![c].lookup = outcome, ![c].accounts = accounts]
           /\ CASE outcome = "throw" ->
                    /\ sent' = [sent EXCEPT ![c] = AuthenticationError(sent[c], c)]
                    /\ pc' = [pc EXCEPT ![c] = "failed"]
                    /\ UNCHANGED << wsState, calls >>
                [] outcome = "notok" ->
                    \* fallback to creating a new wallet
                    /\ calls' = [calls EXCEPT ![c] = Issue(@, "create")]
                    /\ pc' = [pc EXCEPT ![c] = "fallbackCreate"]
                    /\ UNCHANGED << wsState, sent >>
                [] outcome = "ok" /\ Usable(existingWallet) ->
                    IF SendThrows(c, thr)
                      THEN /\ sent' = [sent EXCEPT ![c] = AuthenticationError(found, c)]
                           /\ pc' = [pc EXCEPT ![c] = "failed"]
                           /\ UNCHANGED << wsState, calls >>
                      ELSE /\ sent' = [sent EXCEPT ![c] = found]
                           /\ wsState' = wsStateSet(wsState, c, existingWallet.id)
                           /\ pc' = [pc EXCEPT ![c] = "done"]
                           /\ UNCHANGED calls
                [] OTHER ->
                    \* no existing wallet, create a new one
                    /\ calls' = [calls EXCEPT ![c] = Issue(@, "create")]
                    /\ pc' = [pc EXCEPT ![c] = "create"]
                    /\ UNCHANGED << wsState, sent >>
    /\ UNCHANGED << env, token, upgradeHeader, status, transport, userId, linked, created,
                    nextWallet, reqlog, pending >>

\* the notification of a wallet that the create call made
CreatedNotification(w, a) == WalletCreated(w, a)

\* the create-wallet fetch returns (in the create branch or in the fallback
\* branch, which handle it alike): "ok" with the new wallet, "notok" with a
\* non-success status, or "throw"; the inner catch reports a throw, and the
\* task then stores walletId, which is still the placeholder unless the
\* create call succeeded
CreateReturn(c, outcome, thr) ==
    /\ pc[c] \in {"create", "fallbackCreate"}
    /\ Env(outcome # "ok" \/ SendThrows(c, thr))
    /\ LET walletData == NewWallet(nextWallet)
           walletId == IF outcome = "ok" THEN walletData.id ELSE TempWalletId
           first == CASE outcome = "ok" ->
                           Send(sent[c], c, CreatedNotification(walletData.id, walletData.address))
                      [] outcome = "notok" ->
                           Send(sent[c], c, ErrorNotification("Wallet creation failed"))
                      [] OTHER ->
                           Send(sent[c], c, ErrorNotification("Wallet creation error"))
           \* a send that throws inside the inner try is reported by the
           \* inner catch; a send that throws inside the inner catch goes
           \* straight to the outer catch
           inner == IF outcome = "throw" THEN first
                    ELSE Send(first, c, ErrorNotification("Wallet creation error"))
       IN  /\ res' = [res EXCEPT ![c].create = outcome,
                                 ![c].walletId = IF outcome = "ok" THEN walletData.id ELSE None,
                                 ![c].address = IF outcome = "ok" THEN walletData.address ELSE None]
           /\ IF outcome = "ok"
                THEN /\ linked' = [linked EXCEPT ![userId[c]] = Append(@, walletData)]
                     /\ created' = [created EXCEPT ![userId[c]] = @ + 1]
                     /\ nextWallet' = nextWallet + 1
                ELSE UNCHANGED << linked, created, nextWallet >>
           /\ IF SendThrows(c, thr)
                THEN /\ sent' = [sent EXCEPT ![c] = AuthenticationError(inner, c)]
                     /\ pc' = [pc EXCEPT ![c] = "failed"]
                     /\ UNCHANGED wsState
                ELSE /\ sent' = [sent EXCEPT ![c] = first]
                     /\ wsState' = wsStateSet(wsState, c, walletId)
                     /\ pc' = [pc EXCEPT ![c] = "done"]
    /\ UNCHANGED << env, token, upgradeHeader, status, transport, userId, calls, reqlog, pending >>

\* --------------------------------------------------------- Signing Relay
\* event.data of an inbound message: text that JSON.parse rejects, or an
\* envelope { id, method, params } where params is absent or holds a payload
Malformed == [json |-> FALSE, id |-> None, method |-> None, params |-> None]
Request(id, method, params) ==
    [json |-> TRUE, id |-> id, method |-> method, params |-> params]
Inbound ==
    { Malformed,
      Request("2", "getBalance", None),
      Request("2", "signPersonalMessage", None),
      Request("1", "signPersonalMessage", "zz"),
      Request("2", "signPersonalMessage", "0x48656c6c6f") }

\* the catch at the message-handler boundary
InternalError_Silent(log, c, n) == log
InternalError(log, c, n) == Send(log, c, ErrorResponse("1", "Internal server error", n))

\* the else branch of the method dispatch: the error echoes msg.id
UnknownMethod_FixedId(log, c, id, n) ==
    Send(log, c, ErrorResponse("1", "Unknown method", n))
UnknownMethod(log, c, id, n) ==
    Send(log, c, ErrorResponse(id, "Unknown method", n))

\* if (!state): no entry is stored under the connection handle
NotInitialized_Never(state) == FALSE
NotInitialized(state) == state = NoState

\* the upstream signing call as the handler with the explicit proof builds
\* it: the body, the input of the proof (method, rpc path of the wallet,
\* body, version), the proof over that input, and the request sent to the
\* rpc endpoint of the wallet with the proof in its header
RpcPath(walletId) == << "/v1/wallets/", walletId, "/rpc" >>
RpcBody(message) ==
    [method |-> "personal_sign", message |-> message, encoding |-> "hex"]
SignInput_Template(walletId, message) ==
    [method |-> "POST", url |-> RpcPath(walletId), body |-> RpcBody(None),
     version |-> 1]
SignInput(walletId, message) ==
    [method |-> "POST", url |-> RpcPath(walletId), body |-> RpcBody(message),
     version |-> 1]
generateAuthorizationSignature(input, authorizationPrivateKey) ==
    [over |-> input, key |-> authorizationPrivateKey]
RpcCall(walletId, message, authorizationKey) ==
    [method |-> "POST",
     url |-> [host |-> "https://api.privy.io", path |-> RpcPath(walletId)],
     body |-> RpcBody(message),
     proof |-> generateAuthorizationSignature(SignInput(walletId, message),
                                              authorizationKey)]

\* a listener that answers every message with the catch's error and drops
\* the session of the connection
Message_DropsSession(c, msg) ==
    /\ transport[c] = "open"
    /\ msg \in Inbound
    /\ quota.msgs > 0
    /\ quota' = [quota EXCEPT !.msgs = @ - 1]
    /\ sent' = [sent EXCEPT ![c] = InternalError(@, c, Len(reqlog[c]) + 1)]
    /\ reqlog' = [reqlog EXCEPT ![c] = Append(@,
            [id |-> msg.id, method |-> msg.method, params |-> msg.params,
             json |-> msg.json, walletId |-> wsStateGet(wsState, c).walletId,
             upstream |-> FALSE, outcome |-> None])]
    /\ wsState' = wsStateDelete(wsState, c)
    /\ UNCHANGED << env, token, upgradeHeader, status, transport, pc, userId, calls,
                    res, linked, created, nextWallet, pending >>

\* the 'message' listener up to its first await: parse, look the state up,
\* answer at once or issue the signMessage call
Message(c, msg) ==
    /\ transport[c] = "open"
    /\ msg \in Inbound
    /\ quota.msgs > 0
    /\ quota' = [quota EXCEPT !.msgs = @ - 1]
    /\ LET n == Len(reqlog[c]) + 1
           state == wsStateGet(wsState, c)
           entry(upstream) == [id |-> msg.id, method |-> msg.method, params |-> msg.params,
                               json |-> msg.json, walletId |-> state.walletId,
                               upstream |-> upstream, outcome |-> None]
       IN  CASE ~msg.json ->
                  /\ sent' = [sent EXCEPT ![c] = InternalError(@, c, n)]
                  /\ reqlog' = [reqlog EXCEPT ![c] = Append(@, entry(FALSE))]
                  /\ UNCHANGED << calls, pending >>
             [] msg.json /\ NotInitialized(state) ->
                  /\ sent' = [sent EXCEPT ![c] =
                        Send(@, c, ErrorResponse(msg.id, "WebSocket not properly initialized", n))]
                  /\ reqlog' = [reqlog EXCEPT ![c] = Append(@, entry(FALSE))]
                  /\ UNCHANGED << calls, pending >>
             [] msg.json /\ ~NotInitialized(state) /\ msg.method = "signPersonalMessage"
                         /\ msg.params = None ->
                  \* msg.params[0] of an absent params throws a TypeError
                  /\ sent' = [sent EXCEPT ![c] = InternalError(@, c, n)]
                  /\ reqlog' = [reqlog EXCEPT ![c] = Append(@, entry(FALSE))]
                  /\ UNCHANGED << calls, pending >>
             [] msg.json /\ ~NotInitialized(state) /\ msg.method = "signPersonalMessage"
                         /\ msg.params # None ->
                  /\ calls' = [calls EXCEPT ![c] = Issue(@, "sign")]
                  /\ pending' = [pending EXCEPT ![c] = @ \cup
                        { [n |-> n, id |-> msg.id, message |-> msg.params,
                           walletId |-> state.walletId,
                           rpc |-> RpcCall(state.walletId, msg.params,
                                           env.PRIVY_AUTHORIZATION_KEY)] }]
                  /\ reqlog' = [reqlog EXCEPT ![c] = Append(@, entry(TRUE))]
                  /\ UNCHANGED sent
             [] OTHER ->
                  /\ sent' = [sent EXCEPT ![c] = UnknownMethod(@, c, msg.id, n)]
                  /\ reqlog' = [reqlog EXCEPT ![c] = Append(@, entry(FALSE))]
                  /\ UNCHANGED << calls, pending >>
    /\ UNCHANGED << env, token, upgradeHeader, status, transport, pc, userId, wsState, res, linked,
                    created, nextWallet >>

\* privy.walletApi.ethereum.signMessage returns: "ok" with the signature of
\* the wallet over the message, or "throw"; the Custody Service signs only
\* for a wallet it holds
SignOutcomes(r) == IF r.walletId = TempWalletId THEN {"throw"} ELSE {"ok", "throw"}

\* the request a completing signMessage call belongs to: the listener's
\* closure holds its own msg and state for each 'message' event
PendingRequest_Latest(c, n) ==
    CHOOSE q \in pending[c] : \A p \in pending[c] : p.n <= q.n
PendingRequest(c, n) == CHOOSE q \in pending[c] : q.n = n

\* the signMessage call of the n-th message of connection c is outstanding:
\* each call is awaited by its own invocation of the listener
Awaited_InOrder(c, n) ==
    \E q \in pending[c] : q.n = n /\ \A p \in pending[c] : p.n >= n
Awaited(c, n) == \E q \in pending[c] : q.n = n

SignReturn(c, n, outcome, thr) ==
    /\ Awaited(c, n)
    /\ LET r == PendingRequest(c, n)
           failed(log) == Send(log, c, ErrorResponse(r.id, "Sign failed", n))
           first == IF outcome = "ok"
                      THEN Send(sent[c], c,
                                ResultResponse(r.id, r.walletId, r.message, n))
                      ELSE failed(sent[c])
           inner == IF outcome = "ok" THEN failed(first) ELSE first
       IN  /\ outcome \in SignOutcomes(r)
           /\ Env((outcome = "throw" /\ SignOutcomes(r) # {"throw"})
                    \/ SendThrows(c, thr))
           /\ pending' = [pending EXCEPT ![c] = { q \in @ : q.n # n }]
           /\ reqlog' = [reqlog EXCEPT ![c][n].outcome = outcome]
           /\ sent' = [sent EXCEPT ![c] =
                 IF SendThrows(c, thr) THEN InternalError(inner, c, n) ELSE first]
    /\ UNCHANGED << env, token, upgradeHeader, status, transport, pc, userId, wsState,
                    calls, res, linked, created, nextWallet >>

\* ----------------------------------------------------- transport events
\* the 'close' listener: wsState.delete(serverWs)
Close(c) ==
    /\ transport[c] \in {"open", "errored"}
    /\ Env(FALSE)
    /\ transport' = [transport EXCEPT ![c] = "closed"]
    /\ wsState' = wsStateDelete(wsState, c)
    /\ UNCHANGED << env, token, upgradeHeader, status, pc, userId, sent, calls, res, linked,
                    created, nextWallet, reqlog, pending >>

\* the 'error' listener: console.error only
TransportError(c) ==
    /\ transport[c] = "open"
    /\ Env(TRUE)
    /\ transport' = [transport EXCEPT ![c] = "errored"]
    /\ UNCHANGED << env, token, upgradeHeader, status, pc, userId, wsState, sent, calls, res,
                    linked, created, nextWallet, reqlog, pending >>

\* ------------------------------------- the handler with the explicit proof
\* The iteration of the worker that signs its upstream calls itself
\* (unnamed/part_001): its fetch handler, close and error listeners are those
\* above; its asynchronous task checks the authorization key of the
\* deployment after the welcome, looks the wallets of the user up, and
\* stores the key with the walletId; its message listener computes the
\* proof with the stored key and posts the rpc call itself.

\* if (!authorizationKey) throw
KeyConfigured_Unchecked(authorizationKey) == TRUE
KeyConfigured(authorizationKey) == authorizationKey # None

\* wsState.set(serverWs, { walletId, authorizationKey })
wsStateSetWithKey(m, ws, walletId, authorizationKey) ==
    { e \in m : e.ws # ws }
        \cup { [ws |-> ws, walletId |-> walletId,
                authorizationKey |-> authorizationKey] }

\* verifyAuthToken returns: on success send the welcome, check the key and
\* issue the wallets lookup; a throw, of the verifier, of the send or of the
\* key check, runs the catch
VerifyReturnWithKey(c, thr) ==
    /\ pc[c] = "verifying"
    /\ Env(SendThrows(c, thr))
    /\ LET r == VerifyOutcome(token[c])
           welcomed == SendWelcome(sent[c], c, r.userId)
       IN  /\ userId' = [userId EXCEPT ![c] = r.userId]
           /\ IF /\ r.ok /\ ~SendThrows(c, thr)
                 /\ KeyConfigured(env.PRIVY_AUTHORIZATION_KEY)
                THEN /\ sent' = [sent EXCEPT ![c] = welcomed]
                     /\ calls' = [calls EXCEPT ![c] = Issue(@, "lookup")]
                     /\ pc' = [pc EXCEPT ![c] = "lookup"]
                ELSE /\ sent' = [sent EXCEPT ![c] =
                           AuthenticationError(IF r.ok THEN welcomed ELSE sent[c], c)]
                     /\ pc' = [pc EXCEPT ![c] = "failed"]
                     /\ UNCHANGED calls
    /\ UNCHANGED << env, token, upgradeHeader, status, transport, wsState, res,
                    linked, created, nextWallet, reqlog, pending >>

\* walletsData.wallets.find(w => w.chain_type === 'ethereum')
RECURSIVE findEthereum(_)
findEthereum(wallets) ==
    IF wallets = <<>> THEN undefined
    ELSE IF Head(wallets).chain_type = "ethereum" THEN Head(wallets)
    ELSE findEthereum(Tail(wallets))

\* the wallets fetch returns: "ok" with the wallets of the user, "notok" or
\* "throw"
LookupReturnWithKey(c, outcome, thr) ==
    /\ pc[c] = "lookup"
    /\ Env(outcome # "ok" \/ SendThrows(c, thr))
    /\ LET wallets == IF outcome = "ok" THEN linked[userId[c]] ELSE <<>>
           existingWallet == findEthereum(wallets)
           found == Send(sent[c], c,
                         WalletFound(existingWallet.id, existingWallet.address))
       IN  /\ res' = [res EXCEPT ![c].lookup = outcome, ![c].accounts = wallets]
           /\ CASE outcome = "throw" ->
                    /\ sent' = [sent EXCEPT ![c] = AuthenticationError(sent[c], c)]
                    /\ pc' = [pc EXCEPT ![c] = "failed"]
                    /\ UNCHANGED << wsState, calls >>
                [] outcome = "notok" ->
                    /\ calls' = [calls EXCEPT ![c] = Issue(@, "create")]
                    /\ pc' = [pc EXCEPT ![c] = "fallbackCreate"]
                    /\ UNCHANGED << wsState, sent >>
                [] outcome = "ok" /\ existingWallet # undefined ->
                    IF SendThrows(c, thr)
                      THEN /\ sent' = [sent EXCEPT ![c] = AuthenticationError(found, c)]
                           /\ pc' = [pc EXCEPT ![c] = "failed"]
                           /\ UNCHANGED << wsState, calls >>
                      ELSE /\ sent' = [sent EXCEPT ![c] = found]
                           /\ wsState' = wsStateSetWithKey(wsState, c, existingWallet.id,
                                                           env.PRIVY_AUTHORIZATION_KEY)
                           /\ pc' = [pc EXCEPT ![c] = "done"]
                           /\ UNCHANGED calls
                [] OTHER ->
                    /\ calls' = [calls EXCEPT ![c] = Issue(@, "create")]
                    /\ pc' = [pc EXCEPT ![c] = "create"]
                    /\ UNCHANGED << wsState, sent >>
    /\ UNCHANGED << env, token, upgradeHeader, status, transport, userId, linked,
                    created, nextWallet, reqlog, pending >>

\* the create-wallet fetch returns, in the create or in the fallback branch
CreateReturnWithKey(c, outcome, thr) ==
    /\ pc[c] \in {"create", "fallbackCreate"}
    /\ Env(outcome # "ok" \/ SendThrows(c, thr))
    /\ LET walletData == NewWallet(nextWallet)
           walletId == IF outcome = "ok" THEN walletData.id ELSE TempWalletId
           first == CASE outcome = "ok" ->
                           Send(sent[c], c,
                                CreatedNotification(walletData.id, walletData.address))
                      [] outcome = "notok" ->
                           Send(sent[c], c, ErrorNotification("Wallet creation failed"))
                      [] OTHER ->
                           Send(sent[c], c, ErrorNotification("Wallet creation error"))
           inner == IF outcome = "throw" THEN first
                    ELSE Send(first, c, ErrorNotification("Wallet creation error"))
       IN  /\ res' = [res EXCEPT
                 ![c].create = outcome,
                 ![c].walletId = IF outcome = "ok" THEN walletData.id ELSE None,
                 ![c].address = IF outcome = "ok" THEN walletData.address ELSE None]
           /\ IF outcome = "ok"
                THEN /\ linked' = [linked EXCEPT ![userId[c]] = Append(@, walletData)]
                     /\ created' = [created EXCEPT ![userId[c]] = @ + 1]
                     /\ nextWallet' = nextWallet + 1
                ELSE UNCHANGED << linked, created, nextWallet >>
           /\ IF SendThrows(c, thr)
                THEN /\ sent' = [sent EXCEPT ![c] = AuthenticationError(inner, c)]
                     /\ pc' = [pc EXCEPT ![c] = "failed"]
                     /\ UNCHANGED wsState
                ELSE /\ sent' = [sent EXCEPT ![c] = first]
                     /\ wsState' = wsStateSetWithKey(wsState, c, walletId,
                                                     env.PRIVY_AUTHORIZATION_KEY)
                     /\ pc' = [pc EXCEPT ![c] = "done"]
    /\ UNCHANGED << env, token, upgradeHeader, status, transport, userId, calls,
                    reqlog, pending >>

\* the 'message' listener up to its first await: parse, look the state up,
\* answer at once, or compute the proof with the key of the state and post
\* the rpc call
MessageWithKey(c, msg) ==
    /\ transport[c] = "open"
    /\ msg \in Inbound
    /\ quota.msgs > 0
    /\ quota' = [quota EXCEPT !.msgs = @ - 1]
    /\ LET n == Len(reqlog[c]) + 1
           state == wsStateGet(wsState, c)
           entry(upstream) ==
               [id |-> msg.id, method |-> msg.method, params |-> msg.params,
                json |-> msg.json, walletId |-> state.walletId,
                upstream |-> upstream, outcome |-> None]
           answered(log) ==
               /\ sent' = [sent EXCEPT ![c] = log]
               /\ reqlog' = [reqlog EXCEPT ![c] = Append(@, entry(FALSE))]
               /\ UNCHANGED << calls, pending >>
       IN  CASE ~msg.json -> answered(InternalError(sent[c], c, n))
             [] msg.json /\ NotInitialized(state) ->
                  answered(Send(sent[c], c,
                      ErrorResponse(msg.id, "WebSocket not properly initialized", n)))
             [] msg.json /\ ~NotInitialized(state)
                         /\ msg.method = "signPersonalMessage" /\ msg.params = None ->
                  answered(InternalError(sent[c], c, n))
             [] msg.json /\ ~NotInitialized(state)
                         /\ msg.method = "signPersonalMessage" /\ msg.params # None ->
                  /\ calls' = [calls EXCEPT ![c] = Issue(@, "sign")]
                  /\ pending' = [pending EXCEPT ![c] = @ \cup
                        { [n |-> n, id |-> msg.id, message |-> msg.params,
                           walletId |-> state.walletId,
                           rpc |-> RpcCall(state.walletId, msg.params,
                                           state.authorizationKey)] }]
                  /\ reqlog' = [reqlog EXCEPT ![c] = Append(@, entry(TRUE))]
                  /\ UNCHANGED sent
             [] OTHER -> answered(UnknownMethod(sent[c], c, msg.id, n))
    /\ UNCHANGED << env, token, upgradeHeader, status, transport, pc, userId,
                    wsState, res, linked, created, nextWallet >>

\* the rpc fetch returns: "ok" with the signature, "notok" with a
\* non-success status, which is answered 'Sign failed (status)' under the
\* request's id, or "throw", which the catch of the listener answers
SignReturnWithKey(c, n, outcome, thr) ==
    /\ Awaited(c, n)
    /\ LET r == PendingRequest(c, n)
           first == CASE outcome = "ok" ->
                           Send(sent[c], c,
                                ResultResponse(r.id, r.walletId, r.message, n))
                      [] outcome = "notok" ->
                           Send(sent[c], c, ErrorResponse(r.id, "Sign failed", n))
                      [] OTHER -> sent[c]
       IN  /\ outcome = "ok" => r.walletId # TempWalletId
           /\ Env((outcome # "ok" /\ r.walletId # TempWalletId)
                    \/ (outcome # "throw" /\ SendThrows(c, thr)))
           /\ pending' = [pending EXCEPT ![c] = { q \in @ : q.n # n }]
           /\ reqlog' = [reqlog EXCEPT ![c][n].outcome = outcome]
           /\ sent' = [sent EXCEPT ![c] =
                 IF outcome = "throw" \/ SendThrows(c, thr)
                   THEN InternalError(first, c, n) ELSE first]
    /\ UNCHANGED << env, token, upgradeHeader, status, transport, pc, userId,
                    wsState, calls, res, linked, created, nextWallet >>

\* ------------------------------------------------------------ properties
InFlight == {"lookup", "create", "fallbackCreate"}
Entries(c) == { e \in wsState : e.ws = c }
Positions(c) == 1..Len(sent[c])
\* the token of connection c was verified
Verified(c) == userId[c] # None
\* the envelopes sent in answer to the n-th inbound message of connection c
Replies(c, n) == { i \in Positions(c) : sent[c][i].req = n }
\* a custodial ethereum wallet (one with an id and an address) among accounts
CompleteWallets(accounts) ==
    { i \in DOMAIN accounts : /\ IsEthereumWallet(accounts[i])
                              /\ accounts[i].id # None
                              /\ accounts[i].address # None }
NoEthereumWallet(accounts) ==
    \A i \in DOMAIN accounts : ~IsEthereumWallet(accounts[i])

\* C1: a signPersonalMessage request handled while no walletId is stored for
\* its connection is answered at once with exactly one error response that
\* carries the request's id; it gets no result, causes no upstream signing
\* call and is not left pending
C1_UninitializedSignRejected ==
    \A c \in Conns :
        /\ calls[c].sign = Cardinality({ n \in DOMAIN reqlog[c] : reqlog[c][n].upstream })
        /\ \A n \in DOMAIN reqlog[c] :
              LET q == reqlog[c][n]
              IN  (q.json /\ q.method = "signPersonalMessage" /\ q.walletId = None) =>
                      /\ ~q.upstream
                      /\ \A r \in pending[c] : r.n # n
                      /\ Cardinality(Replies(c, n)) = 1
                      /\ \A i \in Replies(c, n) :
                            /\ sent[c][i].id = q.id
                            /\ sent[c][i].error # None
                            /\ ~sent[c][i].hasResult

\* C1 witness: a signing request with a payload was handled on a connection
\* whose resolution is still waiting for an upstream call
C1_Witness ==
    \E c \in Conns : \E n \in DOMAIN reqlog[c] :
        /\ pc[c] \in InFlight
        /\ reqlog[c][n].method = "signPersonalMessage"
        /\ reqlog[c][n].params # None
        /\ reqlog[c][n].walletId = None

\* C2: once the transport of a connection has closed, the session table has
\* no entry for its handle
C2_ClosedHasNoEntry ==
    \A c \in Conns : transport[c] = "closed" => ~wsStateHas(wsState, c)

\* C3: a connection whose token is missing or rejected by the verifier never
\* has an entry in the session table
C3_NoSessionWithoutVerifiedToken ==
    \A c \in Conns : ~verifyAuthToken(token[c]).ok => ~wsStateHas(wsState, c)

\* C3 witness: the verifier rejected the token of an upgraded connection and
\* another request was refused for its missing token
C3_Witness ==
    \E c, d \in Conns :
        /\ token[c] = "expired" /\ pc[c] = "failed"
        /\ status[d] = 401

\* C4: after the verifier rejected the token of an upgraded connection and
\* the error message was sent, the channel is no longer open
C4_ClosedAfterRejectedToken ==
    \A c \in Conns :
        (pc[c] = "failed" /\ ~verifyAuthToken(token[c]).ok) => transport[c] # "open"

\* C5: on a connection whose token was verified exactly one welcome is sent,
\* and every wallet_found or wallet_created comes after it
C5_OneWelcomeFirst ==
    \A c \in Conns :
        Verified(c) =>
            /\ Cardinality({ i \in Positions(c) : sent[c][i].id = "welcome" }) = 1
            /\ \A j \in Positions(c) :
                  sent[c][j].id \in {"wallet_found", "wallet_created"} =>
                      \E i \in 1..(j - 1) : sent[c][i].id = "welcome"

\* C5 witness: a wallet notification was sent on a verified connection
C5_Witness ==
    \E c \in Conns : \E j \in Positions(c) :
        Verified(c) /\ sent[c][j].id \in {"wallet_found", "wallet_created"}

C7_ExistingWalletReused ==
    \A c \in Conns :
        (res[c].lookup = "ok" /\ CompleteWallets(res[c].accounts) # {}) =>
            /\ calls[c].create = 0
            /\ \E j \in Positions(c), i \in CompleteWallets(res[c].accounts) :
                  /\ sent[c][j].id = "wallet_found"
                  /\ ~sent[c][j].isNew
                  /\ sent[c][j].walletId = res[c].accounts[i].id
                  /\ sent[c][j].address = res[c].accounts[i].address

\* C8: when the lookup succeeded and returned no ethereum wallet, exactly one
\* create-wallet call is issued in that resolution, and if it succeeded the
\* notification is wallet_created with isNew = true and the id and address the
\* create call returned
C8_CreateOnceWhenNoWallet ==
    \A c \in Conns :
        (res[c].lookup = "ok" /\ NoEthereumWallet(res[c].accounts)) =>
            /\ calls[c].create = 1
            /\ res[c].create = "ok" =>
                  /\ \E j \in Positions(c) :
                        /\ sent[c][j].id = "wallet_created"
                        /\ sent[c][j].isNew
                        /\ sent[c][j].hasResult
                        /\ sent[c][j].walletId = res[c].walletId
                        /\ sent[c][j].address = res[c].address
                  /\ \A j \in Positions(c) : sent[c][j].id # "wallet_found"

\* C8 witness: a lookup without ethereum wallet was followed by a create call
\* that succeeded
C8_Witness ==
    \E c \in Conns :
        /\ res[c].lookup = "ok" /\ NoEthereumWallet(res[c].accounts)
        /\ res[c].create = "ok"

\* C9: the Custody Service never holds more than one custodial ethereum
\* wallet of one identity, and a wallet is created for an identity only if
\* it had none
C9_AtMostOneWalletPerIdentity ==
    \A u \in Users : Cardinality(CompleteWallets(linked[u])) <= 1

\* C10: a resolution that ended after one of its upstream calls failed has
\* sent an error notification
C10_UpstreamFailureNotified ==
    \A c \in Conns :
        (/\ pc[c] \in {"done", "failed"}
         /\ \/ res[c].lookup \in {"notok", "throw"}
            \/ res[c].create \in {"notok", "throw"}) =>
            \E j \in Positions(c) : sent[c][j].id = "error"

\* a resolution of connection c ended after an upstream call of it failed
ResolutionFailed(c) ==
    /\ pc[c] \in {"done", "failed"}
    /\ \/ res[c].lookup = "throw"
       \/ res[c].create \in {"notok", "throw"}

\* C11: on a connection whose wallet resolution failed, no signing request
\* is passed to the Custody Service: each one is answered with exactly one
\* "not initialized" error response that carries the request's id
C11_FailedResolutionRejectsSigning ==
    \A c \in Conns : \A n \in DOMAIN reqlog[c] :
        LET q == reqlog[c][n]
        IN  (/\ ResolutionFailed(c)
             /\ q.json /\ q.method = "signPersonalMessage" /\ q.params # None) =>
                /\ ~q.upstream
                /\ Cardinality(Replies(c, n)) = 1
                /\ \A i \in Replies(c, n) :
                      /\ sent[c][i].id = q.id
                      /\ sent[c][i].error = "WebSocket not properly initialized"

\* C12: a parsed request whose method is not signPersonalMessage is answered
\* with exactly one error response that carries the request's id, whether or
\* not a session is registered; it gets no result, causes no upstream call
\* and is not left pending
C12_UnknownMethodRejected ==
    \A c \in Conns : \A n \in DOMAIN reqlog[c] :
        LET q == reqlog[c][n]
        IN  (q.json /\ q.method # "signPersonalMessage") =>
                /\ ~q.upstream
                /\ calls[c].sign =
                      Cardinality({ k \in DOMAIN reqlog[c] : reqlog[c][k].upstream })
                /\ \A r \in pending[c] : r.n # n
                /\ Cardinality(Replies(c, n)) = 1
                /\ \A i \in Replies(c, n) :
                      /\ sent[c][i].id = q.id
                      /\ sent[c][i].error # None
                      /\ ~sent[c][i].hasResult

\* C12 witness: a getBalance request was handled on a connection that has a
\* registered session
C12_Witness ==
    \E c \in Conns : \E n \in DOMAIN reqlog[c] :
        /\ reqlog[c][n].method = "getBalance"
        /\ reqlog[c][n].walletId # None
        /\ Replies(c, n) # {}

\* C13: a signing request whose signMessage call returned a signature is
\* sent a result with the request's id holding the signature of the session's
\* wallet over the request's message; one whose call failed is sent an error
\* with the request's id and no result
C13_SignOutcomeRelayed ==
    \A c \in Conns : \A n \in DOMAIN reqlog[c] :
        LET q == reqlog[c][n]
        IN  /\ q.outcome = "ok" =>
                  \E i \in Replies(c, n) :
                      /\ sent[c][i].id = q.id
                      /\ sent[c][i].hasResult
                      /\ sent[c][i].error = None
                      /\ sent[c][i].sigWallet = q.walletId
                      /\ sent[c][i].sigMessage = q.params
            /\ q.outcome = "throw" =>
                  /\ \E i \in Replies(c, n) :
                        sent[c][i].id = q.id /\ sent[c][i].error # None
                  /\ \A i \in Replies(c, n) : ~sent[c][i].hasResult

\* C13 witness: on one connection a signMessage call returned a signature
\* and another one failed
C13_Witness ==
    \E c \in Conns : \E n, k \in DOMAIN reqlog[c] :
        /\ reqlog[c][n].outcome = "ok" /\ reqlog[c][n].id = "2"
        /\ reqlog[c][k].outcome = "throw"

\* nothing was done for connection c beyond answering its request
Untouched(c) ==
    /\ transport[c] = "none"
    /\ calls[c].verify = 0
    /\ userId[c] = None
    /\ sent[c] = << >>
    /\ ~wsStateHas(wsState, c)

\* C14: a request without the websocket Upgrade header is answered 400,
\* with or without a token, and an upgrade request without a token is
\* answered 401; in both cases no transport was accepted, the verifier was
\* not called and no session is registered
C14_RejectedBeforeAccept ==
    \A c \in Conns :
        pc[c] # "new" =>
            /\ upgradeHeader[c] # "websocket" => status[c] = 400 /\ Untouched(c)
            /\ (upgradeHeader[c] = "websocket" /\ token[c] = None) =>
                  status[c] = 401 /\ Untouched(c)

\* C14 witness: a request with neither upgrade header nor token was answered
\* 400 and an upgrade request without a token was answered 401
C14_Witness ==
    \E c, d \in Conns :
        /\ pc[c] = "rejected" /\ upgradeHeader[c] = None /\ token[c] = None
        /\ status[c] = 400
        /\ pc[d] = "rejected" /\ upgradeHeader[d] = "websocket" /\ status[d] = 401

\* C15: an upgrade request that carries a token has its 101 response from
\* the step that accepted it, so also while the verifier or a custody call
\* of its resolution has not answered
C15_UpgradeReturnedAtOnce ==
    \A c \in Conns :
        (/\ upgradeHeader[c] = "websocket" /\ token[c] # None
         /\ pc[c] \in {"verifying"} \cup InFlight) => status[c] = 101

\* C15 witness: one connection waits for the verifier and another for the
\* custody service, both with their 101 response returned
C15_Witness ==
    \E c, d \in Conns :
        /\ pc[c] = "verifying" /\ status[c] = 101
        /\ pc[d] \in InFlight /\ status[d] = 101

\* C16: after a transport error event on a connection no entry is stored
\* under its connection handle
C16_ErrorTearsDownSession ==
    \A c \in Conns : transport[c] = "errored" => ~wsStateHas(wsState, c)

\* C17: a parsed signPersonalMessage request without params, handled in a
\* registered session, is answered with an error response that carries the
\* request's id
C17_InternalErrorEchoesId ==
    \A c \in Conns : \A n \in DOMAIN reqlog[c] :
        LET q == reqlog[c][n]
        IN  (/\ q.json /\ q.method = "signPersonalMessage" /\ q.params = None
             /\ q.walletId # None) =>
                /\ Replies(c, n) # {}
                /\ \A i \in Replies(c, n) :
                      sent[c][i].id = q.id /\ sent[c][i].error # None

\* every inbound message handled so far on connection c has been answered
\* or has its signMessage call in flight
Handled(c) ==
    \A n \in DOMAIN reqlog[c] :
        Replies(c, n) # {} \/ \E r \in pending[c] : r.n = n

\* C18: a step of the message handler (the listener itself or the return of
\* its signMessage call), whatever error it reports, leaves the transport and
\* the session table as they were, and every message of a connection, also
\* one that follows an error, is answered or passed upstream
C18_ErrorsKeepConnection ==
    /\ [](\A c \in Conns : Handled(c))
    /\ [][\A c \in Conns :
            reqlog'[c] # reqlog[c] =>
                transport'[c] = transport[c] /\ wsState' = wsState]_vars

\* C18 witness: the first message of a connection was answered with an error
\* without an upstream call, the connection is still open and registered, and
\* its second message was signed
C18_Witness ==
    \E c \in Conns :
        /\ Len(reqlog[c]) = 2
        /\ ~reqlog[c][1].upstream
        /\ \E i \in Replies(c, 1) : sent[c][i].error # None
        /\ reqlog[c][2].outcome = "ok"
        /\ \E i \in Replies(c, 2) : sent[c][i].hasResult
        /\ transport[c] = "open"
        /\ wsStateHas(wsState, c)

\* C19: on an open connection every signing request passed upstream has at
\* most one response, which carries the request's own id and, when it is a
\* result, the signature of the session's wallet over the request's own
\* message, in whatever order the signMessage calls return
C19_ConcurrentSignsCorrelated ==
    \A c \in Conns :
        transport[c] = "open" =>
            \A n \in DOMAIN reqlog[c] :
                LET q == reqlog[c][n]
                IN  q.upstream =>
                        /\ Cardinality(Replies(c, n)) <= 1
                        /\ \A i \in Replies(c, n) :
                              /\ sent[c][i].id = q.id
                              /\ sent[c][i].hasResult =>
                                    /\ sent[c][i].sigWallet = q.walletId
                                    /\ sent[c][i].sigMessage = q.params

\* C19 witness: two signing requests with different ids and messages were in
\* flight together on an open connection and the second was answered first,
\* both with a result
C19_Witness ==
    \E c \in Conns : \E i, j \in Positions(c) :
        /\ transport[c] = "open"
        /\ Len(reqlog[c]) = 2
        /\ reqlog[c][1].id # reqlog[c][2].id
        /\ reqlog[c][1].params # reqlog[c][2].params
        /\ i < j
        /\ sent[c][i].req = 2 /\ sent[c][i].hasResult
        /\ sent[c][j].req = 1 /\ sent[c][j].hasResult

\* C20: the entry of a connection changes in two ways only: it is written,
\* from absent, by the step that ends the connection's resolution, which
\* happens at most once since an ended resolution stays ended; and it is
\* removed by the step that closes the connection's transport. A stored
\* walletId is never replaced
C20_WalletIdWrittenOnce ==
    [][\A c \in Conns :
          LET before == { e \in wsState : e.ws = c }
              after == { e \in wsState' : e.ws = c }
          IN  /\ pc[c] = "done" => pc'[c] = "done"
              /\ after # before =>
                    \/ /\ before = {} /\ Cardinality(after) = 1
                       /\ pc[c] # "done" /\ pc'[c] = "done"
                    \/ /\ after = {}
                       /\ transport[c] # "closed" /\ transport'[c] = "closed"]_vars

\* C20 witness: one connection holds the walletId its resolution stored
\* while the entry of another one, whose resolution also ended, is gone with
\* its closed transport
C20_Witness ==
    \E c, d \in Conns :
        /\ pc[c] = "done" /\ transport[c] = "open"
        /\ \E e \in Entries(c) : e.walletId \notin {None, TempWalletId}
        /\ pc[d] = "done" /\ transport[d] = "closed" /\ Entries(d) = {}

\* C21: the resolution of a connection is started at most once: over the
\* whole life of the connection, whatever messages and upstream responses
\* arrive, at most one user lookup and at most one wallet creation are
\* issued for it, the lookup only for a verified token and only by the step
\* in which the verification returns
C21_ResolutionStartedOnce ==
    /\ [](\A c \in Conns :
            /\ calls[c].lookup <= 1
            /\ calls[c].create <= 1
            /\ calls[c].lookup = 1 => Verified(c))
    /\ [][\A c \in Conns :
            calls'[c].lookup # calls[c].lookup =>
                pc[c] = "verifying" /\ pc'[c] = "lookup"]_vars

\* C21 witness: a connection whose resolution ran to its end, wallet
\* creation included, has since had a message handled and a signMessage call
\* returned
C21_Witness ==
    \E c \in Conns :
        /\ pc[c] = "done"
        /\ calls[c].lookup = 1 /\ calls[c].create = 1
        /\ \E n \in DOMAIN reqlog[c] : reqlog[c][n].outcome # None

\* the kinds of upstream call issued so far for connection c
Issued(c) == { kind \in DOMAIN calls[c] : calls[c][kind] > 0 }

\* C22: a resolution that adopted a wallet returned by the lookup without an
\* owner has issued a claim call for it
C22_UnownedWalletClaimed ==
    \A c \in Conns :
        (/\ pc[c] = "done" /\ res[c].lookup = "ok"
         /\ Usable(find(res[c].accounts))
         /\ ownerRef(find(res[c].accounts)) = None) =>
            "claim" \in Issued(c)

\* the inbound payloads that are hex-encoded
HexPayloads == { "0x48656c6c6f" }

\* C23: a signPersonalMessage request handled in a registered session whose
\* parameter is present but not hex-encoded is not passed upstream and is
\* answered with an error response that carries the request's id
C23_InvalidHexRejected ==
    \A c \in Conns : \A n \in DOMAIN reqlog[c] :
        LET q == reqlog[c][n]
        IN  (/\ q.json /\ q.method = "signPersonalMessage"
             /\ q.walletId \notin {None, TempWalletId}
             /\ q.params # None /\ q.params \notin HexPayloads) =>
                /\ ~q.upstream
                /\ \E i \in Replies(c, n) :
                      sent[c][i].id = q.id /\ sent[c][i].error # None

\* C24: every signing call in flight is a POST to the rpc path of the
\* walletId stored for its connection, with a personal_sign body holding the
\* message of its own request, and the proof it carries was computed over
\* exactly that method, path and body; calls for different messages carry
\* different proofs
C24_ProofCoversOwnCall ==
    \A c \in Conns : \A r \in pending[c] :
        LET q == reqlog[c][r.n]
            call == r.rpc
        IN  /\ \A e \in Entries(c) : e.walletId = q.walletId
            /\ call.method = "POST"
            /\ call.url.path = RpcPath(q.walletId)
            /\ call.body = RpcBody(q.params)
            /\ call.proof.over.method = call.method
            /\ call.proof.over.url = call.url.path
            /\ call.proof.over.body = call.body
            /\ \A p \in pending[c] :
                  p.message # r.message => p.rpc.proof # call.proof

\* C24 witness: two signing calls for different messages are in flight on
\* one registered connection
C24_Witness ==
    \E c \in Conns : \E r, p \in pending[c] :
        /\ r.message # p.message
        /\ Entries(c) # {}

\* C25: a signMessage call that stays unanswered holds back nothing else:
\* every other call in flight, on the same or on another connection, can
\* return and be answered whatever else is outstanding, every message that
\* is not waiting for its own call has its answer, and a step of the handler
\* of one request leaves the transports as they were
C25_HungCallStallsOnlyItself ==
    /\ [](\A c \in Conns :
            /\ \A n \in DOMAIN reqlog[c] : Replies(c, n) # {} \/ Awaited(c, n)
            /\ \A q \in pending[c] :
                  ENABLED (\E outcome \in SignOutcomes(q) :
                              SignReturn(c, q.n, outcome, FALSE)))
    /\ [][reqlog' # reqlog => transport' = transport]_vars

\* C25 witness: the call of a signing request on one connection is still
\* unanswered while a signing request on another connection has been issued,
\* returned and answered with its result, both connections being open
C25_Witness ==
    \E c, d \in Conns :
        /\ c # d
        /\ transport[c] = "open" /\ transport[d] = "open"
        /\ pending[c] # {}
        /\ \E n \in DOMAIN reqlog[d] :
              /\ reqlog[d][n].outcome = "ok"
              /\ \E i \in Replies(d, n) : sent[d][i].hasResult

\* C26: once the transport of a connection is closed, no step writes an
\* entry for that connection into the session table
C26_NothingWrittenAfterClose ==
    [][\A c \in Conns :
          transport[c] = "closed" =>
              { e \in wsState' : e.ws = c } = { e \in wsState : e.ws = c }]_vars

\* C27: the signMessage calls issued for a connection are one for each
\* message that was passed upstream and none besides, also once calls have
\* returned a signature or failed
C27_OneSignCallPerRequest ==
    \A c \in Conns :
        /\ calls[c].sign =
              Cardinality({ n \in DOMAIN reqlog[c] : reqlog[c][n].upstream })
        /\ calls[c].sign <= Len(reqlog[c])

\* C27 witness: on one connection a signMessage call has failed and another
\* has returned a signature, and nothing is in flight any more
C27_Witness ==
    \E c \in Conns : \E n, k \in DOMAIN reqlog[c] :
        /\ reqlog[c][n].outcome = "throw"
        /\ reqlog[c][k].outcome = "ok"
        /\ pending[c] = {}
        /\ calls[c].sign = 2

\* C28: the verifier has been called exactly once for every connection
\* whose upgrade was accepted and never for a request that was refused,
\* whatever messages have been handled since
C28_VerifiedOncePerConnection ==
    \A c \in Conns :
        /\ status[c] = 101 => calls[c].verify = 1
        /\ status[c] # 101 => calls[c].verify = 0

\* C28 witness: a connection with its verification long returned has had a
\* message handled in a registered session, and another request was refused
C28_Witness ==
    \E c, d \in Conns :
        /\ pc[c] = "done" /\ calls[c].verify = 1
        /\ \E n \in DOMAIN reqlog[c] : reqlog[c][n].walletId # None
        /\ pc[d] = "rejected"

\* the messages the clients may send as signing payloads
Payloads == { msg.params : msg \in Inbound } \ {None}

\* C29: a step that handles an inbound message or the return of its
\* signMessage call leaves the session table exactly as it was, and an entry
\* of the table never holds anything but the connection handle and a
\* walletId that is no payload
C29_RequestsLeaveTableUnchanged ==
    /\ [](\A e \in wsState :
            DOMAIN e = {"ws", "walletId"} /\ e.walletId \notin Payloads)
    /\ [][reqlog' # reqlog => wsState' = wsState]_vars

\* C29 witness: on a connection that is registered a signing request was
\* answered with its result, a second message with an error, and the entry
\* holds the walletId the first request was signed with
C29_Witness ==
    \E c \in Conns : \E n, k \in DOMAIN reqlog[c] :
        /\ reqlog[c][n].outcome = "ok"
        /\ ~reqlog[c][k].upstream
        /\ \E i \in Replies(c, k) : sent[c][i].error # None
        /\ \E e \in Entries(c) : e.walletId = reqlog[c][n].walletId

\* C30: a step changes the entries of at most one connection, and only of
\* the connection whose resolution or transport the step moves; the entries
\* of every other connection stay as they were
C30_OtherEntriesUntouched ==
    [][\A c \in Conns :
          LET changed(k) ==
                  { e \in wsState' : e.ws = k } # { e \in wsState : e.ws = k }
          IN  changed(c) =>
                  /\ pc'[c] # pc[c] \/ transport'[c] # transport[c]
                  /\ \A d \in Conns \ {c} :
                        /\ ~changed(d)
                        /\ pc'[d] = pc[d] /\ transport'[d] = transport[d]]_vars

\* C30 witness: two connections are registered side by side, each with the
\* walletId of its own resolution
C30_Witness ==
    \E c, d \in Conns : \E e \in Entries(c), f \in Entries(d) :
        /\ c # d
        /\ transport[c] = "open" /\ transport[d] = "open"
        /\ e.walletId # f.walletId

C31_WitnessConfigured ==
    /\ env.PRIVY_AUTHORIZATION_KEY # None
    /\ \E c \in Conns : Entries(c) # {} /\ pending[c] # {}

\* the positions of the outcome notifications of connection c
OutcomeNotifications(c) ==
    { i \in Positions(c) : sent[c][i].id \in {"wallet_found", "wallet_created", "error"} }
\* the resolution of connection c has run to its end
Ended(c) == pc[c] \in {"done", "failed"}

\* C32: on a verified connection whose resolution has run to its end, every
\* outcome notification (wallet_found, wallet_created or error) follows the
\* welcome, there is at least one, and on a transport that is open, where no
\* send has thrown, there is exactly one
C32_OneOutcomeNotification ==
    \A c \in Conns :
        (Verified(c) /\ Ended(c)) =>
            /\ OutcomeNotifications(c) # {}
            /\ transport[c] = "open" => Cardinality(OutcomeNotifications(c)) = 1
            /\ \A j \in OutcomeNotifications(c) :
                   \E i \in 1..(j - 1) : sent[c][i].id = "welcome"

\* C32 witness: two open verified connections ended, one with a wallet
\* notification and one with an error notification
C32_Witness ==
    \E c, d \in Conns :
        /\ Verified(c) /\ Ended(c) /\ transport[c] = "open"
        /\ Verified(d) /\ Ended(d) /\ transport[d] = "open"
        /\ \E i \in Positions(c) : sent[c][i].id \in {"wallet_found", "wallet_created"}
        /\ \E i \in Positions(d) : sent[d][i].id = "error"

\* the ids of the wallets among accounts
WalletIds(accounts) == { accounts[i].id : i \in DOMAIN accounts } \ {None}

\* C33: the walletId of a session of a connection on which wallet_found or
\* wallet_created was sent is the walletId of that notification, and it is
\* the id of a wallet that the lookup (wallet_found) or the create call
\* (wallet_created) returned for the verified identity of the connection
C33_SessionMatchesNotification ==
    \A c \in Conns : \A e \in Entries(c) : \A j \in Positions(c) :
        sent[c][j].id \in {"wallet_found", "wallet_created"} =>
            /\ e.walletId = sent[c][j].walletId
            /\ e.walletId # TempWalletId
            /\ e.walletId \in WalletIds(linked[userId[c]])
            /\ sent[c][j].id = "wallet_found" =>
                   res[c].lookup = "ok" /\ e.walletId \in WalletIds(res[c].accounts)
            /\ sent[c][j].id = "wallet_created" =>
                   res[c].create = "ok" /\ e.walletId = res[c].walletId

\* C33 witness: one session follows a wallet_found and another a
\* wallet_created notification
C33_Witness ==
    \E c, d \in Conns :
        /\ Entries(c) # {} /\ Entries(d) # {}
        /\ \E j \in Positions(c) : sent[c][j].id = "wallet_found"
        /\ \E j \in Positions(d) : sent[d][j].id = "wallet_created"

\* C34: every upstream signing call in flight on a connection targets a
\* wallet returned for that connection's own identity (or the placeholder),
\* never a wallet of the identity of another connection, and the step that
\* issues it takes the walletId and the rpc path from the entry stored under
\* the connection's own handle
C34_SessionsIsolated ==
    /\ [](\A c \in Conns : \A q \in pending[c] :
            /\ Verified(c)
            /\ q.rpc.url.path = RpcPath(q.walletId)
            /\ q.walletId \in WalletIds(linked[userId[c]]) \cup {TempWalletId}
            /\ \A d \in Conns \ {c} :
                   (userId[d] # None /\ userId[d] # userId[c]) =>
                       q.walletId \notin WalletIds(linked[userId[d]]))
    /\ [][\A c \in Conns : \A q \in pending'[c] \ pending[c] :
            /\ Cardinality(Entries(c)) = 1
            /\ \A e \in Entries(c) : q.walletId = e.walletId]_vars

\* C34 witness: two connections of different identities have sessions with
\* different walletIds and each has a signing call in flight
C34_Witness ==
    \E c, d \in Conns :
        /\ userId[c] # userId[d]
        /\ pending[c] # {} /\ pending[d] # {}
        /\ \E e \in Entries(c), f \in Entries(d) : e.walletId # f.walletId

\* C35: a wallet_found notification is sent only for the first ethereum
\* wallet account of a successful lookup, and only if that account has an id
\* and an address; when that first account lacks an id or an address no
\* wallet_found is sent and exactly one create-wallet call is issued
C35_IncompleteWalletIsNoWallet ==
    \A c \in Conns :
        LET existingWallet == find(res[c].accounts)
        IN  /\ \A j \in Positions(c) :
                   sent[c][j].id = "wallet_found" =>
                       /\ res[c].lookup = "ok"
                       /\ existingWallet.type = "wallet"
                       /\ existingWallet.chain_type = "ethereum"
                       /\ existingWallet.id # None /\ existingWallet.address # None
                       /\ sent[c][j].walletId = existingWallet.id
                       /\ sent[c][j].address = existingWallet.address
            /\ (/\ res[c].lookup = "ok" /\ existingWallet # undefined
                /\ (existingWallet.id = None \/ existingWallet.address = None)) =>
                   /\ calls[c].create = 1
                   /\ \A j \in Positions(c) : sent[c][j].id # "wallet_found"

\* C35 witness: the first ethereum wallet account of a lookup had no id, and
\* the create call that followed has returned
C35_Witness ==
    \E c \in Conns :
        /\ res[c].lookup = "ok" /\ find(res[c].accounts) # undefined
        /\ find(res[c].accounts).id = None
        /\ calls[c].create = 1 /\ pc[c] = "done"

\* the same for a first ethereum wallet account without an address
C35_WitnessNoAddress ==
    \E c \in Conns :
        /\ res[c].lookup = "ok" /\ find(res[c].accounts) # undefined
        /\ find(res[c].accounts).address = None
        /\ calls[c].create = 1 /\ pc[c] = "done"

\* the text of the error response of a request made before a session exists
NotInitializedText == "WebSocket not properly initialized"
\* the step receives a message of connection c that parses as JSON
Receives(c) ==
    /\ Len(reqlog'[c]) = Len(reqlog[c]) + 1
    /\ reqlog'[c][Len(reqlog'[c])].json
\* the step answers with the "not initialized" error response
RejectsAsNotInitialized(c) ==
    /\ Len(sent'[c]) = Len(sent[c]) + 1
    /\ sent'[c][Len(sent'[c])].error = NotInitializedText
    /\ ~reqlog'[c][Len(reqlog'[c])].upstream

\* C36: if the lookup and create calls of the resolver return, a resolution
\* in flight eventually ends; a resolution issues at most one lookup and at
\* most one create-wallet call; and a message is rejected as not initialized
\* exactly when the resolution of its connection has not ended with a
\* session, so the rejections stop only once the resolver has finished
C36_ResolutionTerminates ==
    /\ \A c \in Conns : (pc[c] \in InFlight) ~> Ended(c)
    /\ [](\A c \in Conns :
            /\ calls[c].lookup <= 1 /\ calls[c].create <= 1
            /\ pc[c] = "done" => calls[c].lookup = 1
            /\ Entries(c) # {} => pc[c] = "done")
    /\ [][\A c \in Conns :
            Receives(c) => (RejectsAsNotInitialized(c) <=> pc[c] # "done")]_vars

\* C36 witness: a connection whose resolution ended after one lookup and one
\* create call rejected its first request and passed its second upstream
C36_Witness ==
    \E c \in Conns :
        /\ pc[c] = "done" /\ calls[c].lookup = 1 /\ calls[c].create = 1
        /\ Len(reqlog[c]) = 2
        /\ reqlog[c][1].json /\ reqlog[c][1].walletId = None
        /\ reqlog[c][2].json /\ reqlog[c][2].upstream

Outcomes == {"ok", "notok", "throw"}

Next ==
    \/ \E c \in Conns, upgrade \in BOOLEAN, tok \in Tokens : Fetch(c, upgrade, tok)
    \/ \E c \in Conns, thr \in BOOLEAN : VerifyReturn(c, thr)
    \/ \E c \in Conns, outcome \in Outcomes, thr \in BOOLEAN : LookupReturn(c, outcome, thr)
    \/ \E c \in Conns, outcome \in Outcomes, thr \in BOOLEAN : CreateReturn(c, outcome, thr)
    \/ \E c \in Conns, msg \in Inbound : Message(c, msg)
    \/ \E c \in Conns, n \in 1..MaxReqs, outcome \in {"ok", "throw"}, thr \in BOOLEAN :
            SignReturn(c, n, outcome, thr)
    \/ \E c \in Conns : Close(c)
    \/ \E c \in Conns : TransportError(c)

\* connections, resolutions, requests and transport events, with a bounded
\* number of client messages and of faults
Spec == Init /\ [][Next]_vars

\* the gateway and the resolver under every combination of upstream
\* outcomes and transport events, with clients that send no message
InitResolve ==
    /\ Start
    /\ env = Configured
    /\ linked \in Custody
    /\ quota = [msgs |-> 0, faults |-> 0, limited |-> FALSE, conns |-> Conns]

NextResolve ==
    \/ \E c \in Conns, upgrade \in BOOLEAN, tok \in Tokens : Fetch(c, upgrade, tok)
    \/ \E c \in Conns, thr \in BOOLEAN : VerifyReturn(c, thr)
    \/ \E c \in Conns, outcome \in Outcomes, thr \in BOOLEAN : LookupReturn(c, outcome, thr)
    \/ \E c \in Conns, outcome \in Outcomes, thr \in BOOLEAN : CreateReturn(c, outcome, thr)
    \/ \E c \in Conns : Close(c)
    \/ \E c \in Conns : TransportError(c)

SpecResolve == InitResolve /\ [][NextResolve]_vars

\* one connection whose client sends up to MaxPipeline messages, which may
\* be in flight together, with at most MaxFaults faults
InitPipeline ==
    /\ Start
    /\ env = Configured
    /\ linked \in CustodyRelay
    /\ quota = [msgs |-> MaxPipeline, faults |-> MaxFaults, limited |-> TRUE,
                conns |-> {"ws1"}]

NextPipeline ==
    \/ \E c \in Conns, upgrade \in BOOLEAN, tok \in Tokens : Fetch(c, upgrade, tok)
    \/ \E c \in Conns, thr \in BOOLEAN : VerifyReturn(c, thr)
    \/ \E c \in Conns, outcome \in Outcomes, thr \in BOOLEAN : LookupReturn(c, outcome, thr)
    \/ \E c \in Conns, outcome \in Outcomes, thr \in BOOLEAN : CreateReturn(c, outcome, thr)
    \/ \E c \in Conns, msg \in Inbound : Message(c, msg)
    \/ \E c \in Conns, n \in 1..MaxPipeline, outcome \in {"ok", "throw"}, thr \in BOOLEAN :
            SignReturn(c, n, outcome, thr)
    \/ \E c \in Conns : Close(c)
    \/ \E c \in Conns : TransportError(c)

SpecPipeline == InitPipeline /\ [][NextPipeline]_vars

\* two connections served in parallel whose clients send up to MaxShared
\* messages between them, with upstream services and transports that do
\* not fail (a call may still stay unanswered for ever)
InitShared ==
    /\ Start
    /\ env = Configured
    /\ linked \in CustodyRelay
    /\ quota = [msgs |-> MaxShared, faults |-> 0, limited |-> TRUE,
                conns |-> Conns]

NextShared ==
    \/ \E c \in Conns, upgrade \in BOOLEAN, tok \in Tokens : Fetch(c, upgrade, tok)
    \/ \E c \in Conns, thr \in BOOLEAN : VerifyReturn(c, thr)
    \/ \E c \in Conns, outcome \in Outcomes, thr \in BOOLEAN : LookupReturn(c, outcome, thr)
    \/ \E c \in Conns, outcome \in Outcomes, thr \in BOOLEAN : CreateReturn(c, outcome, thr)
    \/ \E c \in Conns, msg \in Inbound : Message(c, msg)
    \/ \E c \in Conns, n \in 1..MaxShared, outcome \in {"ok", "throw"}, thr \in BOOLEAN :
            SignReturn(c, n, outcome, thr)
    \/ \E c \in Conns : Close(c)

SpecShared == InitShared /\ [][NextShared]_vars

\* resolutions whose upstream calls return: the runs of one connection, with
\* up to MaxPipeline messages and MaxFaults faults, whose identity has at
\* most one linked account, in which a lookup or create call that is in
\* flight eventually returns, with success or failure
InitLive ==
    /\ Start
    /\ env = Configured
    /\ linked \in { f \in Custody : f["u2"] = <<>> /\ Len(f["u1"]) <= 1 }
    /\ quota = [msgs |-> MaxPipeline, faults |-> MaxFaults, limited |-> TRUE,
                conns |-> {"ws1"}]

NextLive ==
    \/ \E c \in Conns, upgrade \in BOOLEAN, tok \in Tokens : Fetch(c, upgrade, tok)
    \/ \E c \in Conns, thr \in BOOLEAN : VerifyReturn(c, thr)
    \/ \E c \in Conns, outcome \in Outcomes, thr \in BOOLEAN : LookupReturn(c, outcome, thr)
    \/ \E c \in Conns, outcome \in Outcomes, thr \in BOOLEAN : CreateReturn(c, outcome, thr)
    \/ \E c \in Conns, msg \in Inbound : Message(c, msg)
    \/ \E c \in Conns, n \in 1..MaxPipeline, outcome \in {"ok", "throw"}, thr \in BOOLEAN :
            SignReturn(c, n, outcome, thr)
    \/ \E c \in Conns : Close(c)
    \/ \E c \in Conns : TransportError(c)

\* the lookup or the create call of connection c returns
ResolverCallReturns(c) ==
    \/ \E outcome \in Outcomes, thr \in BOOLEAN : LookupReturn(c, outcome, thr)
    \/ \E outcome \in Outcomes, thr \in BOOLEAN : CreateReturn(c, outcome, thr)

SpecLive ==
    /\ InitLive /\ [][NextLive]_vars
    /\ \A c \in Conns : WF_vars(ResolverCallReturns(c))

\* the handler with the explicit proof, in a deployment with or without an
\* authorization key: two connections, up to MaxReqs messages and up to
\* MaxFaults faults
InitWithKey ==
    /\ Start
    /\ env \in Deployments
    /\ linked \in CustodyRelay
    /\ quota = [msgs |-> MaxReqs, faults |-> MaxFaults, limited |-> TRUE,
                conns |-> Conns]

NextWithKey ==
    \/ \E c \in Conns, upgrade \in BOOLEAN, tok \in Tokens : Fetch(c, upgrade, tok)
    \/ \E c \in Conns, thr \in BOOLEAN : VerifyReturnWithKey(c, thr)
    \/ \E c \in Conns, outcome \in Outcomes, thr \in BOOLEAN :
            LookupReturnWithKey(c, outcome, thr)
    \/ \E c \in Conns, outcome \in Outcomes, thr \in BOOLEAN :
            CreateReturnWithKey(c, outcome, thr)
    \/ \E c \in Conns, msg \in Inbound : MessageWithKey(c, msg)
    \/ \E c \in Conns, n \in 1..MaxReqs, outcome \in Outcomes, thr \in BOOLEAN :
            SignReturnWithKey(c, n, outcome, thr)
    \/ \E c \in Conns : Close(c)
    \/ \E c \in Conns : TransportError(c)

SpecWithKey == InitWithKey /\ [][NextWithKey]_vars
====
